---- MODULE Spec2Model ----
(***************************************************************************)
(* State-machine model of the Recommendation & Activity Engine of the      *)
(* Agentic File Recommender (backend/db.py, backend/agents/*.py).          *)
(*                                                                         *)
(* The SQLite tables are functions from primary key to row (the DOMAIN is  *)
(* the set of stored keys).  Every coroutine is cut at its `await`         *)
(* expressions: one action is the code that runs between two of them, and  *)
(* the event loop may run any other coroutine at an `await`.  A coroutine  *)
(* that waits for an asyncio.Lock has done nothing yet: its first action   *)
(* is enabled when the lock is free.                                       *)
(*                                                                         *)
(* Time is counted in minutes of UTC; the host's local offset tz is chosen *)
(* by the environment.  Under Spec every SQL statement is answered (no     *)
(* "database is locked" from a writer outside the process); under          *)
(* SpecStore and SpecContention a writer outside the process may hold the  *)
(* database lock at any write attempt, which then raises "database is      *)
(* locked".                                                                *)
(*                                                                         *)
(* A text is a tuple of one-character strings.  A vector is a tuple of     *)
(* integers.                                                               *)
(***************************************************************************)
EXTENDS Integers, FiniteSets, Sequences, TLC

\* ------------------------------------------------------------------ bounds
NumTasks == 2        \* coroutines that may be in flight at once
MaxId == 2           \* rowids handed out by the files table
MaxCalls == 3        \* record_access calls that reach the activity upsert
MaxTicks == 2        \* steps of the clock
TickMinutes == 3     \* minutes the clock advances per step
Dim == 3             \* config["embeddings"]["dim"], the configured dimension D
MaxWeight == 2       \* largest configured ranking weight
MaxLimit == 2        \* largest limit, and largest | limit | below zero, asked for
MaxSteps == 1        \* largest planning_steps configured and max_planning_steps asked for

\* --------------------------------------------------------- program constants
WindowMinutes == 5   \* activity_agent.py: datetime('now', '-5 minutes')
MaxRetries == 5      \* recommendation_agent.py: max_retries: int = 5
BackoffTenths == 3   \* recommendation_agent.py: wait_time = 0.3 * (attempt + 1)
PreviewChars == 1000 \* recommendation_agent.py: text[:1000]
DefaultPlanningSteps == 3 \* planner_agent.py: .get("planning_steps", 3)

Tasks == 1..NumTasks
Ids == 1..MaxId
Paths == {"a", "b"}
\* Offsets (minutes) of the host's local time zone from UTC.
TzOffsets == {0 - 60, 0, 60}

VARIABLES
    now,        \* the wall clock, minutes of UTC
    tz,         \* the host's local offset from UTC, minutes
    files,      \* table files: path -> [id]
    content,    \* table file_content: file_id -> [preview, vec]
    activity,   \* table file_activity: file_id -> [last_accessed, access_count]
    cooc,       \* table file_cooccurrence: <<file_id_1, file_id_2>> -> co_count
    index,      \* RecommendationAgent.index, file_id_map:
                \* slot -> [id, path, vec]
    actLock,    \* ActivityAgent._lock is held
    scanLock,   \* FileAgent._lock is held
    task,       \* each coroutine's position and locals
    returned,   \* the record_access call that returned in the last step, if any
    targeted,   \* history: file id -> record_access calls that resolved to it
    retry,      \* each store_embedding call's attempt number and waits so far
    sret,       \* the store_embedding call that returned in the last step, if any
    stored,     \* history: path -> vector of its last successful store_embedding
    weights,    \* config["ranking"]: <<alpha, beta, gamma>>
    recs,       \* the recommend_similar call that returned in the last step, if any
    planner     \* PlannerAgent: its configuration and the request it executes

vars == <<now, tz, files, content, activity, cooc, index, actLock, scanLock,
          task, returned, targeted, retry, sret, stored, weights, recs,
          planner>>

\* ---------------------------------------------------------------- helpers
Max(S) == CHOOSE x \in S : \A y \in S : y <= x

\* A coroutine's position and live locals (a dead local is reset).
IdleTask == [pc |-> "idle", path |-> "", fid |-> 0, text |-> <<>>, todo |-> {}]

NoReturn == [op |-> "none", path |-> "", ret |-> FALSE]

\* A store_embedding call before its first write attempt.
NoRetry == [attempt |-> 0, slept |-> <<>>, vec |-> <<>>]

NoStoreReturn ==
    [op |-> "none", fid |-> 0, text |-> <<>>, len |-> 0, ret |-> FALSE,
     attempts |-> 0, slept |-> <<>>]

NoRecs ==
    [op |-> "none", query |-> "", limit |-> 0, text |-> <<>>, items |-> <<>>]

\* A step outside the RecommendationAgent's calls: no call of it returns and
\* its configuration is as it was.
RecommendationIdle ==
    /\ sret' = NoStoreReturn
    /\ recs' = NoRecs
    /\ UNCHANGED <<retry, stored, weights, planner>>

Return(p, r) == [op |-> "record_access", path |-> p, ret |-> r]

\* extract_text_snippet: the text of the file on disk; <<>> stands for None
\* (not a text file, or no text in it).  File "a" holds text, file "b" none;
\* file "c" holds text and lies outside the scanned directories.
ExtractText(p) ==
    IF p = "a" THEN <<"a", " ", "b">>
    ELSE IF p = "c" THEN <<"c">>
    ELSE <<>>

\* datetime.now(): naive local time.
LocalNow == now + tz

\* SQLite datetime('now', '-5 minutes'): UTC.
WindowStart == now - WindowMinutes

\* SELECT id FROM files WHERE path = ?  (0: no row).
SelectFileId(fs, p) == IF p \in DOMAIN fs THEN fs[p].id ELSE 0

\* files.id is INTEGER PRIMARY KEY: a new row gets the largest rowid plus one.
NewRowid(fs) ==
    IF DOMAIN fs = {} THEN 1 ELSE Max({fs[p].id : p \in DOMAIN fs}) + 1

\* INSERT OR REPLACE INTO files: the row of the same path is deleted, the new
\* row takes a new rowid.  Foreign keys are off on the connections of get_db,
\* so no dependent row is touched.
InsertOrReplaceFile(fs, p) ==
    LET row == [id |-> NewRowid(fs)]
    IN  IF p \in DOMAIN fs THEN [fs EXCEPT ![p] = row] ELSE fs @@ (p :> row)

\* INSERT INTO file_activity ... ON CONFLICT(file_id) DO UPDATE.
\* (UpsertActivityReset: as INSERT OR REPLACE; UpsertActivityStale: the
\* conflict clause without last_accessed.)
UpsertActivityStale(act, fid, t) ==
    IF fid \in DOMAIN act
    THEN [act EXCEPT ![fid].access_count = @ + 1]
    ELSE act @@ (fid :> [last_accessed |-> t, access_count |-> 1])

UpsertActivityReset(act, fid, t) ==
    LET row == [last_accessed |-> t, access_count |-> 1]
    IN  IF fid \in DOMAIN act THEN [act EXCEPT ![fid] = row]
        ELSE act @@ (fid :> row)

UpsertActivity(act, fid, t) ==
    IF fid \in DOMAIN act
    THEN [act EXCEPT ![fid] = [last_accessed |-> t,
                               access_count |-> @.access_count + 1]]
    ELSE act @@ (fid :> [last_accessed |-> t, access_count |-> 1])

\* SELECT file_id FROM file_activity WHERE file_id != ? AND last_accessed >= ...
RecentOthers(act, fid) ==
    {o \in DOMAIN act : o # fid /\ act[o].last_accessed >= WindowStart}

\* ActivityAgent.record_cooccurrence.
\* (RecordCooccurrenceUnordered: without the swap; RecordCooccurrenceReset:
\* as INSERT OR REPLACE.)
RecordCooccurrenceReset(co, a, b) ==
    IF a = b THEN co
    ELSE LET k == IF a > b THEN <<b, a>> ELSE <<a, b>>
         IN  IF k \in DOMAIN co THEN [co EXCEPT ![k] = 1]
             ELSE co @@ (k :> 1)

\* (RecordCooccurrenceFromZero: a new edge inserted with co_count 0.)
RecordCooccurrenceFromZero(co, a, b) ==
    IF a = b THEN co
    ELSE LET k == IF a > b THEN <<b, a>> ELSE <<a, b>>
         IN  IF k \in DOMAIN co THEN [co EXCEPT ![k] = @ + 1]
             ELSE co @@ (k :> 0)

RecordCooccurrenceUnordered(co, a, b) ==
    IF a = b THEN co
    ELSE IF <<a, b>> \in DOMAIN co THEN [co EXCEPT ![<<a, b>>] = @ + 1]
         ELSE co @@ (<<a, b>> :> 1)

RecordCooccurrence(co, a, b) ==
    IF a = b THEN co
    ELSE LET k == IF a > b THEN <<b, a>> ELSE <<a, b>>
         IN  IF k \in DOMAIN co THEN [co EXCEPT ![k] = @ + 1]
             ELSE co @@ (k :> 1)

\* RecommendationAgent._load_embeddings: files JOIN file_content, one slot per
\* row in rowid order, filled when the row's vector has D components.
JoinedIds(fs, ct) == {fs[p].id : p \in DOMAIN fs} \cap DOMAIN ct

PathOf(fs, i) == CHOOSE p \in DOMAIN fs : fs[p].id = i

RECURSIVE SortedIds(_)
SortedIds(S) ==
    IF S = {} THEN <<>>
    ELSE LET m == CHOOSE x \in S : \A y \in S : x <= y
         IN  <<m>> \o SortedIds(S \ {m})

\* (LoadEmbeddingsAbort: a row of another length ends the load in the outer
\* `except`, which clears the map.)
LoadEmbeddingsAbort(fs, ct) ==
    LET rows == SortedIds(JoinedIds(fs, ct))
    IN  IF \E s \in 1..Len(rows) : Len(ct[rows[s]].vec) # Dim THEN <<>>
        ELSE [s \in 0..(Len(rows) - 1) |->
                 [id |-> rows[s + 1], path |-> PathOf(fs, rows[s + 1]),
                  vec |-> ct[rows[s + 1]].vec]]

LoadEmbeddings(fs, ct) ==
    LET rows == SortedIds(JoinedIds(fs, ct))
        slots == {s \in 0..(Len(rows) - 1) : Len(ct[rows[s + 1]].vec) = Dim}
    IN  [s \in slots |->
            [id |-> rows[s + 1], path |-> PathOf(fs, rows[s + 1]),
             vec |-> ct[rows[s + 1]].vec]]

\* INSERT OR REPLACE INTO file_content (file_id, content_preview, ...).
InsertOrReplaceContent(ct, fid, row) ==
    IF fid \in DOMAIN ct THEN [ct EXCEPT ![fid] = row] ELSE ct @@ (fid :> row)

\* str.strip(): the text without its leading and trailing whitespace.
\* (StripNothing: the text as it is.)
Whitespace == {" ", "\n"}

StripNothing(s) == s

RECURSIVE LStrip(_)
LStrip(s) ==
    IF s # <<>> /\ Head(s) \in Whitespace THEN LStrip(Tail(s)) ELSE s

RECURSIVE RStrip(_)
RStrip(s) ==
    IF s # <<>> /\ s[Len(s)] \in Whitespace
    THEN RStrip(SubSeq(s, 1, Len(s) - 1)) ELSE s

Strip(s) == RStrip(LStrip(s))

\* compute_embedding with an embedding function of n components: the vector
\* of a text is a function of the text alone.
Encode(text, n) == [i \in 1..n |-> IF i = 1 THEN Len(text) ELSE 0]

\* Vector lengths the embedding function may yield.
EncodeDims == {Dim - 1, Dim, Dim + 1}

\* The row (content_preview, embedding_vector) = (text[:1000], vector).
ContentRow(text, vec) ==
    [preview |-> SubSeq(text, 1, IF Len(text) < PreviewChars THEN Len(text)
                                  ELSE PreviewChars),
     vec |-> vec]

\* asyncio.Lock: `async with self._lock` enters only when the lock is free.
\* (AlwaysFree: the body without the lock.)
AlwaysFree(l) == TRUE

LockFree(l) == ~l

\* record_access calls that have reached the activity upsert.
RECURSIVE SumOver(_, _)
SumOver(f, S) ==
    IF S = {} THEN 0
    ELSE LET x == CHOOSE y \in S : TRUE IN f[x] + SumOver(f, S \ {x})

\* config["ranking"].get("alpha", 1.0), .get("beta", 0.0), .get("gamma", 0.0).
DefaultWeights == <<1, 0, 0>>

\* PlannerAgent after __init__(config, ...): max_steps and hitl_enabled from
\* config["agentic"], no request in execution.  Confidences are hundredths.
NoRequest == [query |-> [keywords |-> {}, path |-> ""],
              require_confirmation |-> FALSE, max_planning_steps |-> 0]

NoResponse ==
    [intent |-> "", confidence |-> 0, user_confirmation_needed |-> FALSE,
     error |-> FALSE]

Constructed(max_steps, hitl_enabled) ==
    [max_steps |-> max_steps, hitl_enabled |-> hitl_enabled, pc |-> "idle",
     request |-> NoRequest, intent |-> "", tool_calls |-> <<>>, idx |-> 0,
     results |-> <<>>, execution_success |-> TRUE, executed |-> <<>>,
     response |-> NoResponse]

\* ------------------------------------------------------------------- init
Init ==
    /\ now = 0
    /\ tz \in TzOffsets
    /\ files = <<>>
    /\ content = <<>>
    /\ activity = <<>>
    /\ cooc = <<>>
    /\ index = <<>>
    /\ actLock = FALSE
    /\ scanLock = FALSE
    /\ task = [t \in Tasks |-> IdleTask]
    /\ returned = NoReturn
    /\ targeted = [i \in Ids |-> 0]
    /\ retry = [t \in Tasks |-> NoRetry]
    /\ sret = NoStoreReturn
    /\ stored = <<>>
    /\ weights = DefaultWeights
    /\ planner = Constructed(DefaultPlanningSteps, TRUE)
    /\ recs = NoRecs

\* ---------------------------------------------------------------- actions
Tick ==
    /\ now + TickMinutes <= MaxTicks * TickMinutes
    /\ now' = now + TickMinutes
    /\ returned' = NoReturn
    /\ UNCHANGED <<tz, files, content, activity, cooc, index, actLock,
                   scanLock, task, targeted>>
    /\ RecommendationIdle

\* record_access on a path with no files row: returns False.
\* (RaUnknownLogged: the activity upsert placed before the check of the row.)
RaUnknownLogged(t, p) ==
    /\ task[t].pc = "idle"
    /\ LockFree(actLock)
    /\ SelectFileId(files, p) = 0
    /\ activity' = UpsertActivity(activity, 0, LocalNow)
    /\ returned' = Return(p, FALSE)
    /\ UNCHANGED <<now, tz, files, content, cooc, index, actLock, scanLock,
                   task, targeted>>
    /\ RecommendationIdle

RaUnknown(t, p) ==
    /\ task[t].pc = "idle"
    /\ LockFree(actLock)
    /\ SelectFileId(files, p) = 0
    /\ returned' = Return(p, FALSE)
    /\ UNCHANGED <<now, tz, files, content, activity, cooc, index, actLock,
                   scanLock, task, targeted>>
    /\ RecommendationIdle

\* record_access on a known path, up to its first `await`: takes the lock,
\* upserts the activity row and reads the recently accessed other rows.
RaKnown(t, p) ==
    /\ task[t].pc = "idle"
    /\ LockFree(actLock)
    /\ SelectFileId(files, p) # 0
    /\ SumOver(targeted, Ids) < MaxCalls
    /\ LET fid == SelectFileId(files, p)
           act == UpsertActivity(activity, fid, LocalNow)
           others == RecentOthers(act, fid)
       IN  /\ activity' = act
           /\ targeted' = [targeted EXCEPT ![fid] = @ + 1]
           /\ IF others = {}
              THEN /\ task' = [task EXCEPT ![t] = IdleTask]
                   /\ actLock' = FALSE
                   /\ returned' = Return(p, TRUE)
              ELSE /\ task' = [task EXCEPT ![t] =
                         [pc |-> "bump", path |-> p, fid |-> fid,
                          text |-> <<>>, todo |-> others]]
                   /\ actLock' = TRUE
                   /\ returned' = NoReturn
    /\ UNCHANGED <<now, tz, files, content, cooc, index, scanLock>>
    /\ RecommendationIdle

\* One `await self.record_cooccurrence(file_id, other_id)`; after the last
\* one record_access returns True and the lock is released.
RaBump(t) ==
    /\ task[t].pc = "bump"
    /\ \E o \in task[t].todo :
        /\ cooc' = RecordCooccurrence(cooc, task[t].fid, o)
        /\ IF task[t].todo = {o}
           THEN /\ task' = [task EXCEPT ![t] = IdleTask]
                /\ actLock' = FALSE
                /\ returned' = Return(task[t].path, TRUE)
           ELSE /\ task' = [task EXCEPT ![t].todo = @ \ {o}]
                /\ returned' = NoReturn
                /\ UNCHANGED actLock
    /\ UNCHANGED <<now, tz, files, content, activity, index, scanLock,
                   targeted>>
    /\ RecommendationIdle

\* scan_directory: takes the lock and lists the files under the root.
ScanBegin(t, root) ==
    /\ task[t].pc = "idle"
    /\ LockFree(scanLock)
    /\ NewRowid(files) + Cardinality(root) - 1 <= MaxId
    /\ scanLock' = TRUE
    /\ task' = [task EXCEPT ![t] =
           [pc |-> "scan", path |-> "", fid |-> 0, text |-> <<>>,
            todo |-> root]]
    /\ returned' = NoReturn
    /\ UNCHANGED <<now, tz, files, content, activity, cooc, index, actLock,
                   targeted>>
    /\ RecommendationIdle

\* One file of the scan, up to `await store_embedding`.
ScanFile(t) ==
    /\ task[t].pc = "scan"
    /\ \E p \in task[t].todo :
        /\ files' = InsertOrReplaceFile(files, p)
        /\ task' = [task EXCEPT ![t] =
               IF ExtractText(p) # <<>>
               THEN [pc |-> "embed", path |-> p, fid |-> files'[p].id,
                     text |-> ExtractText(p), todo |-> task[t].todo \ {p}]
               ELSE [pc |-> "scan", path |-> "", fid |-> 0, text |-> <<>>,
                     todo |-> task[t].todo \ {p}]]
    /\ returned' = NoReturn
    /\ UNCHANGED <<now, tz, content, activity, cooc, index, actLock,
                   scanLock, targeted>>
    /\ RecommendationIdle

\* store_embedding(file_id, text) for the file just inserted, with an
\* embedding function of D components and no contention: writes the
\* file_content row and reloads the index.
ScanEmbed(t) ==
    /\ task[t].pc = "embed"
    /\ content' = InsertOrReplaceContent(content, task[t].fid,
                       ContentRow(task[t].text, Encode(task[t].text, Dim)))
    /\ index' = LoadEmbeddings(files, content')
    /\ task' = [task EXCEPT ![t] =
           [pc |-> "scan", path |-> "", fid |-> 0, text |-> <<>>,
            todo |-> task[t].todo]]
    /\ returned' = NoReturn
    /\ UNCHANGED <<now, tz, files, activity, cooc, actLock, scanLock,
                   targeted>>
    /\ RecommendationIdle

\* The scan has no file left: releases the lock and returns True.
ScanEnd(t) ==
    /\ task[t].pc = "scan"
    /\ task[t].todo = {}
    /\ scanLock' = FALSE
    /\ task' = [task EXCEPT ![t] = IdleTask]
    /\ returned' = NoReturn
    /\ UNCHANGED <<now, tz, files, content, activity, cooc, index, actLock,
                   targeted>>
    /\ RecommendationIdle

Roots == (SUBSET Paths) \ {{}}

Next ==
    \/ Tick
    \/ \E t \in Tasks, p \in Paths : RaUnknown(t, p)
    \/ \E t \in Tasks, p \in Paths : RaKnown(t, p)
    \/ \E t \in Tasks : RaBump(t)
    \/ \E t \in Tasks, root \in Roots : ScanBegin(t, root)
    \/ \E t \in Tasks : ScanFile(t)
    \/ \E t \in Tasks : ScanEmbed(t)
    \/ \E t \in Tasks : ScanEnd(t)

Spec == Init /\ [][Next]_vars

\* ------------------------------------------------------ recommend_similar
\* Scores are fixed-point numbers: Fixed stands for 1.0.  round(x, 3) gives
\* a number of thousandths, round(x, 2) a number of hundredths.
Fixed == 10000

Milli == 1000

Centi == 100

\* round(): n / d to the nearest integer, a tie to the even one (d > 0).
RoundHalfEven(n, d) ==
    LET q == n \div d
        r == n - q * d
    IN  IF 2 * r < d THEN q
        ELSE IF 2 * r > d THEN q + 1
        ELSE IF q % 2 = 0 THEN q ELSE q + 1

\* math.exp(k / tau) for k >= 0, by its power series.
RECURSIVE ExpSeries(_, _, _, _)
ExpSeries(k, tau, n, term) ==
    IF term = 0 THEN 0
    ELSE term + ExpSeries(k, tau, n + 1, (term * k) \div ((n + 1) * tau))

\* math.exp(-k / tau).
ExpNeg(k, tau) ==
    IF k >= 0 THEN (Fixed * Fixed) \div ExpSeries(k, tau, 0, Fixed)
    ELSE ExpSeries(0 - k, tau, 0, Fixed)

\* max(0.0, min(1.0, x)).
Clamp(x) == IF x < 0 THEN 0 ELSE IF x > Fixed THEN Fixed ELSE x

\* (now - t).days for naive local times in minutes.
DaysSince(t) == (LocalNow - t) \div (24 * 60)

\* Days since the file on disk was modified: less than one.
DaysSinceModified(p) == 0

\* _get_recency_score: 0.4 * exp(-days_modified / 30)
\*                   + 0.6 * exp(-days_accessed / 15), 0.0 without a files row.
GetRecencyScore(fs, act, p) ==
    IF p \notin DOMAIN fs THEN 0
    ELSE LET modification_score == Clamp(ExpNeg(DaysSinceModified(p), 30))
             access_score ==
                 IF fs[p].id \in DOMAIN act
                 THEN Clamp(ExpNeg(DaysSince(act[fs[p].id].last_accessed), 15))
                 ELSE 0
         IN  (4 * modification_score + 6 * access_score) \div 10

\* _get_cooccurrence_score: -1.0 without both files rows or without an edge,
\* else 2 / (1 + exp(-co_count / 5)) - 1.
\* (GetCooccurrenceScoreOrdered: the edge looked up as (query, candidate)
\* only.)
GetCooccurrenceScoreOrdered(fs, co, q, p) ==
    IF q \notin DOMAIN fs \/ p \notin DOMAIN fs THEN 0 - Fixed
    ELSE LET a == fs[q].id
             b == fs[p].id
         IN  IF <<a, b>> \notin DOMAIN co THEN 0 - Fixed
             ELSE (2 * Fixed * Fixed) \div (Fixed + ExpNeg(co[<<a, b>>], 5))
                  - Fixed

GetCooccurrenceScore(fs, co, q, p) ==
    IF q \notin DOMAIN fs \/ p \notin DOMAIN fs THEN 0 - Fixed
    ELSE LET a == fs[q].id
             b == fs[p].id
             rows == {k \in DOMAIN co : k = <<a, b>> \/ k = <<b, a>>}
         IN  IF rows = {} THEN 0 - Fixed
             ELSE LET cooccur == co[CHOOSE k \in rows : TRUE]
                  IN  (2 * Fixed * Fixed) \div (Fixed + ExpNeg(cooccur, 5))
                      - Fixed

\* The integer square root, by bisection of lo..hi.
RECURSIVE Bisect(_, _, _)
Bisect(n, lo, hi) ==
    IF lo >= hi THEN lo
    ELSE LET mid == (lo + hi + 1) \div 2
         IN  IF mid * mid <= n THEN Bisect(n, mid, hi)
             ELSE Bisect(n, lo, mid - 1)

RECURSIVE SumSquares(_, _, _)
SumSquares(u, v, i) ==
    IF i > Len(u) THEN 0
    ELSE (u[i] - v[i]) * (u[i] - v[i]) + SumSquares(u, v, i + 1)

\* float(1 - np.linalg.norm(query_embedding - stored_embedding)).
Similarity(u, v) ==
    LET s == SumSquares(u, v, 1)
    IN  Fixed - Bisect(s * Fixed * Fixed, 0, ((s + 1) * Fixed) \div 2)

\* The query text: the text on disk, else the stored content_preview.
\* (QueryTextFromDisk: without the lookup of the preview.)
QueryTextFromDisk(fs, ct, q) == ExtractText(q)

QueryText(fs, ct, q) ==
    IF ExtractText(q) # <<>> THEN ExtractText(q)
    ELSE IF q \in DOMAIN fs /\ fs[q].id \in DOMAIN ct
         THEN ct[fs[q].id].preview
         ELSE <<>>

\* alpha, beta, gamma = map(lambda x: x / total, [alpha, beta, gamma]).
\* (NormalizedRaw: the weights without the division.)
NormalizedRaw(w) == [i \in 1..3 |-> w[i] * Fixed]

Normalized(w) ==
    LET total == w[1] + w[2] + w[3]
    IN  [i \in 1..3 |-> RoundHalfEven(w[i] * Fixed, total)]

\* final_score = alpha * similarity + beta * recency + gamma * cooccurrence.
\* (FinalScoreUnweighted: the sum of the three factors.)
FinalScoreUnweighted(nw, similarity, recency, cooccurrence) ==
    similarity + recency + cooccurrence

FinalScore(nw, similarity, recency, cooccurrence) ==
    RoundHalfEven(nw[1] * similarity + nw[2] * recency
                  + nw[3] * cooccurrence, Fixed)

\* One item of the result, for the row of candidate id i.
Item(fs, ct, act, co, nw, q, qvec, i) ==
    LET path == PathOf(fs, i)
        similarity == Similarity(qvec, ct[i].vec)
        recency == GetRecencyScore(fs, act, path)
        cooccurrence == GetCooccurrenceScore(fs, co, q, path)
        final_score == FinalScore(nw, similarity, recency, cooccurrence)
    IN  [path |-> path,
         final_score |-> RoundHalfEven(final_score * Milli, Fixed),
         factors |-> [semantic_similarity |->
                          RoundHalfEven(similarity * Milli, Fixed),
                      recency |-> RoundHalfEven(recency * Milli, Fixed),
                      cooccurrence |->
                          RoundHalfEven(cooccurrence * Milli, Fixed)],
         weights |-> [semantic |-> RoundHalfEven(nw[1] * Centi, Fixed),
                      recency |-> RoundHalfEven(nw[2] * Centi, Fixed),
                      cooccurrence |-> RoundHalfEven(nw[3] * Centi, Fixed)],
         used |-> nw,
         raw |-> <<similarity, recency, cooccurrence>>,
         vec |-> ct[i].vec]

\* results.sort(key=final_score, reverse=True): stable.
RECURSIVE InsertDesc(_, _)
InsertDesc(sorted, x) ==
    IF sorted = <<>> THEN <<x>>
    ELSE IF Head(sorted).final_score >= x.final_score
         THEN <<Head(sorted)>> \o InsertDesc(Tail(sorted), x)
         ELSE <<x>> \o sorted

RECURSIVE SortDesc(_, _)
SortDesc(sorted, rest) ==
    IF rest = <<>> THEN sorted
    ELSE SortDesc(InsertDesc(sorted, Head(rest)), Tail(rest))

\* results[:limit] of Python: a negative limit counts from the end.
\* (SliceNonNegative: a limit below zero taken as zero.)
SliceNonNegative(results, limit) ==
    LET n == Len(results)
        stop == IF limit >= n THEN n ELSE IF limit >= 0 THEN limit ELSE 0
    IN  SubSeq(results, 1, stop)

Slice(results, limit) ==
    LET n == Len(results)
        stop == IF limit >= n THEN n
                ELSE IF limit >= 0 THEN limit
                ELSE IF n + limit >= 0 THEN n + limit ELSE 0
    IN  SubSeq(results, 1, stop)

\* The rows of files JOIN file_content WHERE f.path != ?, in rowid order,
\* without those of an empty embedding_vector.
CandidateIds(fs, ct, q) ==
    SortedIds({i \in JoinedIds(fs, ct) :
                  PathOf(fs, i) # q /\ ct[i].vec # <<>>})

\* recommend_similar(query_path, limit): <<>> without a query text, and <<>>
\* from `except Exception` when the weights sum to zero (division by zero)
\* or a stored vector has another length than the query's.
RecommendSimilar(fs, ct, act, co, w, q, limit) ==
    LET query_text == QueryText(fs, ct, q)
        query_embedding == Encode(query_text, Dim)
        ids == CandidateIds(fs, ct, q)
    IN  IF query_text = <<>> THEN <<>>
        ELSE IF w[1] + w[2] + w[3] = 0 THEN <<>>
        ELSE IF \E k \in 1..Len(ids) : Len(ct[ids[k]].vec) # Dim THEN <<>>
        ELSE Slice(SortDesc(<<>>,
                       [k \in 1..Len(ids) |->
                           Item(fs, ct, act, co, Normalized(w), q,
                                query_embedding, ids[k])]),
                   limit)

\* A recommend_similar call: it runs to its end without a suspension.
Recommend(q, limit) ==
    /\ recs' = [op |-> "recommend_similar", query |-> q, limit |-> limit,
                text |-> QueryText(files, content, q),
                items |-> RecommendSimilar(files, content, activity, cooc,
                                           weights, q, limit)]
    /\ returned' = NoReturn
    /\ sret' = NoStoreReturn
    /\ UNCHANGED <<now, tz, files, content, activity, cooc, index, actLock,
                   scanLock, task, targeted, retry, stored, weights,
                   planner>>

\* Paths a recommendation is asked for: the scanned files and file "c".
QueryPaths == Paths \cup {"c"}

\* ------------------------------------- store_embedding under contention
\* The rest of the state of a step of store_embedding.
StoreFrame ==
    /\ returned' = NoReturn
    /\ recs' = NoRecs
    /\ UNCHANGED <<now, tz, files, activity, cooc, actLock, scanLock,
                   targeted, weights, planner>>

\* Texts a caller passes to store_embedding.
Texts == {<<>>, <<" ", "\n">>, <<" ", "c">>}

\* Positions of a coroutine inside store_embedding: awaited by
\* scan_directory ("embed"), or called by another caller ("store").
StorePcs == {"embed", "store"}

\* A caller other than scan_directory calls store_embedding(fid, text).
StoreCall(t, fid, text) ==
    /\ task[t].pc = "idle"
    /\ task' = [task EXCEPT ![t] =
           [pc |-> "store", path |-> "", fid |-> fid, text |-> text,
            todo |-> {}]]
    /\ sret' = NoStoreReturn
    /\ StoreFrame
    /\ UNCHANGED <<content, index, retry, stored>>

\* store_embedding returns r after k write attempts, its embedding had n
\* components (0: none computed); scan_directory goes on with its next file.
StoreReturns(t, r, n, k) ==
    /\ task' = [task EXCEPT ![t] =
           IF task[t].pc = "embed"
           THEN [pc |-> "scan", path |-> "", fid |-> 0, text |-> <<>>,
                 todo |-> task[t].todo]
           ELSE IdleTask]
    /\ retry' = [retry EXCEPT ![t] = NoRetry]
    /\ sret' = [op |-> "store_embedding", fid |-> task[t].fid,
                text |-> task[t].text, len |-> n, ret |-> r,
                attempts |-> k, slept |-> retry[t].slept]

\* `if not text.strip(): return False`.
StoreBlank(t) ==
    /\ task[t].pc \in StorePcs
    /\ retry[t] = NoRetry
    /\ Strip(task[t].text) = <<>>
    /\ StoreReturns(t, FALSE, 0, 0)
    /\ StoreFrame
    /\ UNCHANGED <<content, index, stored>>

\* `len(embedding) == self.dim`.  (DimAny: no check of the length.)
DimAny(v) == TRUE

DimOk(v) == Len(v) = Dim

\* The embedding of the call: computed on entry, by an embedding function of
\* n components, and kept over the attempts.
Embedding(t, n) ==
    IF retry[t] = NoRetry THEN Encode(task[t].text, n) ELSE retry[t].vec

EmbeddingDims(t) ==
    IF retry[t] = NoRetry THEN EncodeDims ELSE {Len(retry[t].vec)}

\* `if len(embedding) != self.dim: return False`.
StoreBadDim(t, n) ==
    /\ task[t].pc \in StorePcs
    /\ retry[t] = NoRetry
    /\ Strip(task[t].text) # <<>>
    /\ ~DimOk(Embedding(t, n))
    /\ StoreReturns(t, FALSE, n, 0)
    /\ StoreFrame
    /\ UNCHANGED <<content, index, stored>>

\* SELECT path FROM files WHERE id = ?  ("": no row).
SelectPath(fs, fid) ==
    IF \E p \in DOMAIN fs : fs[p].id = fid THEN PathOf(fs, fid) ELSE ""

\* A write attempt that is answered: the row is written, the index
\* reloaded, the call returns True.
\* (StoreWriteNoReload: without the call of _load_embeddings.)
StoreWriteNoReload(t, n) ==
    /\ task[t].pc \in StorePcs
    /\ Strip(task[t].text) # <<>>
    /\ DimOk(Embedding(t, n))
    /\ content' = InsertOrReplaceContent(content, task[t].fid,
                       ContentRow(task[t].text, Embedding(t, n)))
    /\ stored' = IF SelectPath(files, task[t].fid) = "" THEN stored
                 ELSE (SelectPath(files, task[t].fid) :> Embedding(t, n))
                      @@ stored
    /\ StoreReturns(t, TRUE, n, retry[t].attempt + 1)
    /\ StoreFrame
    /\ UNCHANGED index

StoreWrite(t, n) ==
    /\ task[t].pc \in StorePcs
    /\ Strip(task[t].text) # <<>>
    /\ DimOk(Embedding(t, n))
    /\ content' = InsertOrReplaceContent(content, task[t].fid,
                       ContentRow(task[t].text, Embedding(t, n)))
    /\ index' = LoadEmbeddings(files, content')
    /\ stored' = IF SelectPath(files, task[t].fid) = "" THEN stored
                 ELSE (SelectPath(files, task[t].fid) :> Embedding(t, n))
                      @@ stored
    /\ StoreReturns(t, TRUE, n, retry[t].attempt + 1)
    /\ StoreFrame

\* A write attempt that raises "database is locked": the call sleeps
\* 0.3 * (attempt + 1) seconds and tries again, or it was the last attempt
\* and the call returns False.
\* (StoreLockedOneMore: one attempt more than max_retries.)
StoreLockedOneMore(t, n) ==
    /\ task[t].pc \in StorePcs
    /\ Strip(task[t].text) # <<>>
    /\ DimOk(Embedding(t, n))
    /\ IF retry[t].attempt < MaxRetries
       THEN /\ retry' = [retry EXCEPT ![t] =
                  [attempt |-> @.attempt + 1,
                   slept |-> Append(@.slept,
                                    BackoffTenths * (@.attempt + 1)),
                   vec |-> Embedding(t, n)]]
            /\ sret' = NoStoreReturn
            /\ UNCHANGED task
       ELSE StoreReturns(t, FALSE, n, retry[t].attempt + 1)
    /\ StoreFrame
    /\ UNCHANGED <<content, index, stored>>

\* (StoreLockedForever: a loop without a last attempt; after max_retries
\* attempts the count starts over.)
StoreLockedForever(t, n) ==
    /\ task[t].pc \in StorePcs
    /\ Strip(task[t].text) # <<>>
    /\ DimOk(Embedding(t, n))
    /\ retry' = [retry EXCEPT ![t] =
           IF @.attempt < MaxRetries - 1
           THEN [attempt |-> @.attempt + 1,
                 slept |-> Append(@.slept, BackoffTenths * (@.attempt + 1)),
                 vec |-> Embedding(t, n)]
           ELSE [attempt |-> 0, slept |-> <<>>, vec |-> Embedding(t, n)]]
    /\ sret' = NoStoreReturn
    /\ UNCHANGED task
    /\ StoreFrame
    /\ UNCHANGED <<content, index, stored>>

StoreLocked(t, n) ==
    /\ task[t].pc \in StorePcs
    /\ Strip(task[t].text) # <<>>
    /\ DimOk(Embedding(t, n))
    /\ IF retry[t].attempt < MaxRetries - 1
       THEN /\ retry' = [retry EXCEPT ![t] =
                  [attempt |-> @.attempt + 1,
                   slept |-> Append(@.slept,
                                    BackoffTenths * (@.attempt + 1)),
                   vec |-> Embedding(t, n)]]
            /\ sret' = NoStoreReturn
            /\ UNCHANGED task
       ELSE StoreReturns(t, FALSE, n, retry[t].attempt + 1)
    /\ StoreFrame
    /\ UNCHANGED <<content, index, stored>>

\* The INSERT OR REPLACE INTO files of one file of the scan raises "database
\* is locked": the error is logged and the scan goes on with the next file.
ScanFileLocked(t) ==
    /\ task[t].pc = "scan"
    /\ \E p \in task[t].todo :
        task' = [task EXCEPT ![t].todo = @ \ {p}]
    /\ returned' = NoReturn
    /\ sret' = NoStoreReturn
    /\ recs' = NoRecs
    /\ UNCHANGED <<now, tz, files, content, activity, cooc, index, actLock,
                   scanLock, targeted, retry, stored, weights, planner>>

\* Under SpecStore one coroutine calls scan_directory and one other
\* coroutine calls store_embedding.
Scanner == CHOOSE t \in Tasks : \A u \in Tasks : t <= u

Caller == Max(Tasks)

NextStore ==
    \/ \E root \in Roots : ScanBegin(Scanner, root)
    \/ ScanFile(Scanner)
    \/ ScanFileLocked(Scanner)
    \/ ScanEnd(Scanner)
    \/ \E fid \in Ids, text \in Texts : StoreCall(Caller, fid, text)
    \/ \E t \in Tasks : StoreBlank(t)
    \/ \E t \in Tasks : \E n \in EmbeddingDims(t) : StoreBadDim(t, n)
    \/ \E t \in Tasks : \E n \in EmbeddingDims(t) : StoreWrite(t, n)
    \/ \E t \in Tasks : \E n \in EmbeddingDims(t) : StoreLocked(t, n)

\* The host's clock is UTC.
InitStore == Init /\ tz = 0

SpecStore == InitStore /\ [][NextStore]_vars

\* SpecStore with recommendations asked for at any time, each with a limit
\* no smaller than the number of rows of file_content.
NextRead ==
    \/ NextStore
    \/ \E q \in QueryPaths : Recommend(q, MaxId)

SpecRead == InitStore /\ [][NextRead]_vars

\* ------------------------------------------ every writer under contention
\* The activity upsert of record_access raises "database is locked": the
\* error is logged and the call returns False.
RaKnownLocked(t, p) ==
    /\ task[t].pc = "idle"
    /\ LockFree(actLock)
    /\ SelectFileId(files, p) # 0
    /\ returned' = Return(p, FALSE)
    /\ UNCHANGED <<now, tz, files, content, activity, cooc, index, actLock,
                   scanLock, task, targeted>>
    /\ RecommendationIdle

\* The upsert of one record_cooccurrence raises "database is locked": the
\* error is logged inside record_cooccurrence and record_access goes on.
RaBumpLocked(t) ==
    /\ task[t].pc = "bump"
    /\ \E o \in task[t].todo :
        IF task[t].todo = {o}
        THEN /\ task' = [task EXCEPT ![t] = IdleTask]
             /\ actLock' = FALSE
             /\ returned' = Return(task[t].path, TRUE)
        ELSE /\ task' = [task EXCEPT ![t].todo = @ \ {o}]
             /\ returned' = NoReturn
             /\ UNCHANGED actLock
    /\ UNCHANGED <<now, tz, files, content, activity, cooc, index, scanLock,
                   targeted>>
    /\ RecommendationIdle

\* The contention met by a store_embedding call clears before its last
\* attempt.
Transient(t) == retry[t].attempt < MaxRetries - 1

\* Under SpecContention the embedding function yields D components and a
\* contention clears before the fifth attempt of any retrying writer.
NextContention ==
    \/ Tick
    \/ \E t \in Tasks, p \in Paths : RaUnknown(t, p)
    \/ \E t \in Tasks, p \in Paths : RaKnown(t, p)
    \/ \E t \in Tasks, p \in Paths : RaKnownLocked(t, p)
    \/ \E t \in Tasks : RaBump(t)
    \/ \E t \in Tasks : RaBumpLocked(t)
    \/ \E t \in Tasks, root \in Roots : ScanBegin(t, root)
    \/ \E t \in Tasks : ScanFile(t)
    \/ \E t \in Tasks : ScanFileLocked(t)
    \/ \E t \in Tasks : ScanEnd(t)
    \/ \E t \in Tasks : StoreWrite(t, Dim)
    \/ \E t \in Tasks : Transient(t) /\ StoreLocked(t, Dim)

SpecContention == Init /\ [][NextContention]_vars

\* -------------------------------------------------- ranking, on its own
\* The tables a recommendation may find: files scanned once or more, vectors
\* stored for any ids, and no access yet or files 1 and 2 accessed in turn
\* within the window, file 1 first (c bumps of their edge).
Limits == (0 - MaxLimit)..MaxLimit

WeightTriples == {<<a, b, g>> : a \in 0..MaxWeight, b \in 0..MaxWeight,
                                g \in 0..MaxWeight}

RankTexts == {<<"a", " ", "b">>, <<"c">>}

FileTables ==
    UNION {{[p \in S |-> [id |-> f[p]]] :
                f \in {g \in [S -> Ids] :
                          \A x, y \in S : x # y => g[x] # g[y]}} :
           S \in SUBSET Paths}

ContentTables ==
    UNION {[S -> {ContentRow(t, Encode(t, Dim)) : t \in RankTexts}] :
           S \in SUBSET Ids}

InitRank ==
    /\ now = 0
    /\ tz = 0
    /\ files \in FileTables
    /\ content \in ContentTables
    /\ \/ activity = <<>> /\ cooc = <<>>
       \/ /\ {fs \in {files} : {1, 2} \subseteq {fs[p].id : p \in DOMAIN fs}}
             # {}
          /\ \E c \in 1..(MaxCalls - 1) :
                /\ activity = [i \in {1, 2} |->
                                  [last_accessed |-> 0,
                                   access_count |-> (c + 3 - i) \div 2]]
                /\ cooc = (<<1, 2>> :> c)
    /\ index = LoadEmbeddings(files, content)
    /\ actLock = FALSE
    /\ scanLock = FALSE
    /\ task = [t \in Tasks |-> IdleTask]
    /\ returned = NoReturn
    /\ targeted = [i \in Ids |->
                      IF i \in DOMAIN activity THEN activity[i].access_count
                      ELSE 0]
    /\ retry = [t \in Tasks |-> NoRetry]
    /\ sret = NoStoreReturn
    /\ stored = <<>>
    /\ weights \in WeightTriples
    /\ recs = NoRecs
    /\ planner = Constructed(DefaultPlanningSteps, TRUE)

\* Under SpecRank one recommendation is asked for, against the tables drawn.
NextRank ==
    \E q \in QueryPaths, limit \in Limits :
        recs = NoRecs /\ Recommend(q, limit)

SpecRank == InitRank /\ [][NextRank]_vars

\* ------------------------------------------------------ concurrent scans
\* Under SpecScans every coroutine calls scan_directory, and the
\* store_embedding calls of the scans meet any embedding width and any
\* contention.
NextScans ==
    \/ \E t \in Tasks, root \in Roots : ScanBegin(t, root)
    \/ \E t \in Tasks : ScanFile(t)
    \/ \E t \in Tasks : ScanFileLocked(t)
    \/ \E t \in Tasks : ScanEnd(t)
    \/ \E t \in Tasks : \E n \in EmbeddingDims(t) : StoreBadDim(t, n)
    \/ \E t \in Tasks : \E n \in EmbeddingDims(t) : StoreWrite(t, n)
    \/ \E t \in Tasks : \E n \in EmbeddingDims(t) : StoreLocked(t, n)

SpecScans == InitStore /\ [][NextScans]_vars

\* --------------------------------------- recommendations after accesses
\* Under SpecUse one coroutine scans the directory of all files, the others
\* record accesses and store embeddings of a text, and recommendations are
\* asked for at any time.
NextUse ==
    \/ ScanBegin(Scanner, Paths)
    \/ ScanFile(Scanner)
    \/ ScanEmbed(Scanner)
    \/ ScanEnd(Scanner)
    \/ \E i \in Ids : StoreCall(Caller, i, <<" ", "c">>)
    \/ StoreWrite(Caller, Dim)
    \/ \E t \in Tasks \ {Scanner}, p \in Paths : RaKnown(t, p)
    \/ \E t \in Tasks : RaBump(t)
    \/ \E q \in QueryPaths : Recommend(q, MaxId)

SpecUse == InitStore /\ [][NextUse]_vars

\* ------------------------------------------- a failure inside record_access
\* record_access on a known path whose SELECT of the recently accessed rows
\* raises (a storage error after the activity upsert): the upsert stays, as
\* every statement commits by itself (isolation_level=None), the error is
\* logged, the lock released and the call returns False.
RaSelectFails(t, p) ==
    /\ task[t].pc = "idle"
    /\ LockFree(actLock)
    /\ SelectFileId(files, p) # 0
    /\ SumOver(targeted, Ids) < MaxCalls
    /\ LET fid == SelectFileId(files, p)
       IN  /\ activity' = UpsertActivity(activity, fid, LocalNow)
           /\ targeted' = [targeted EXCEPT ![fid] = @ + 1]
    /\ returned' = Return(p, FALSE)
    /\ UNCHANGED <<now, tz, files, content, cooc, index, actLock, scanLock,
                   task>>
    /\ RecommendationIdle

\* Under SpecFailure one coroutine scans the directory of all files, the
\* others record accesses, and any statement of record_access may fail.
NextFailure ==
    \/ Tick
    \/ ScanBegin(Scanner, Paths)
    \/ ScanFile(Scanner)
    \/ ScanEmbed(Scanner)
    \/ ScanEnd(Scanner)
    \/ \E t \in Tasks \ {Scanner}, p \in Paths : RaUnknown(t, p)
    \/ \E t \in Tasks \ {Scanner}, p \in Paths : RaKnown(t, p)
    \/ \E t \in Tasks \ {Scanner}, p \in Paths : RaKnownLocked(t, p)
    \/ \E t \in Tasks \ {Scanner}, p \in Paths : RaSelectFails(t, p)
    \/ \E t \in Tasks : RaBump(t)
    \/ \E t \in Tasks : RaBumpLocked(t)

SpecFailure == InitStore /\ [][NextFailure]_vars

\* ---------------------------------------------------- get_recent_activity
\* The rows of file_activity JOIN files, as (path, last_accessed,
\* access_count).
ActivityRows(fs, act) ==
    {[path |-> p, last_accessed |-> act[fs[p].id].last_accessed,
      access_count |-> act[fs[p].id].access_count] :
        p \in {x \in DOMAIN fs : fs[x].id \in DOMAIN act}}

\* ORDER BY fa.last_accessed DESC: rows of equal last_accessed in any order.
\* (Ascending: ORDER BY fa.last_accessed.)
Ascending(seq) ==
    \A j, k \in 1..Len(seq) :
        j < k => seq[j].last_accessed <= seq[k].last_accessed

Descending(seq) ==
    \A j, k \in 1..Len(seq) :
        j < k => seq[j].last_accessed >= seq[k].last_accessed

\* The orders in which the rows of a set may be returned.
Orderings(S) ==
    {seq \in [1..Cardinality(S) -> S] :
        (\A j, k \in 1..Cardinality(S) : j # k => seq[j] # seq[k])
        /\ Descending(seq)}

\* LIMIT ? of SQLite: a negative limit is no limit.
LimitRows(seq, limit) ==
    IF limit < 0 \/ limit >= Len(seq) THEN seq ELSE SubSeq(seq, 1, limit)

\* A get_recent_activity(limit) call: one SELECT, without the lock of
\* record_access, at any time.
Recent(limit) ==
    /\ \E seq \in Orderings(ActivityRows(files, activity)) :
          recs' = [op |-> "get_recent_activity", query |-> "",
                   limit |-> limit, text |-> <<>>,
                   items |-> LimitRows(seq, limit)]
    /\ returned' = NoReturn
    /\ sret' = NoStoreReturn
    /\ UNCHANGED <<now, tz, files, content, activity, cooc, index, actLock,
                   scanLock, task, targeted, retry, stored, weights,
                   planner>>

\* Under SpecRecent one coroutine scans the directory of all files, the
\* others record accesses, and the recent activity is asked for at any time.
NextRecent ==
    \/ Tick
    \/ ScanBegin(Scanner, Paths)
    \/ ScanFile(Scanner)
    \/ ScanEmbed(Scanner)
    \/ ScanEnd(Scanner)
    \/ \E t \in Tasks \ {Scanner}, p \in Paths : RaKnown(t, p)
    \/ \E t \in Tasks : RaBump(t)
    \/ \E limit \in Limits : Recent(limit)

SpecRecent == InitStore /\ [][NextRecent]_vars

\* ------------------------------------------------------------- progress
\* The next step of the store_embedding call of coroutine t: the length
\* check, or a write attempt that is answered or meets contention.
StoreStep(t) ==
    \E n \in EmbeddingDims(t) :
        StoreBadDim(t, n) \/ StoreWrite(t, n) \/ StoreLocked(t, n)

\* The next step of the record_access call of coroutine t: one
\* record_cooccurrence, applied or locked out.
BumpStep(t) == RaBump(t) \/ RaBumpLocked(t)

\* Under SpecLive one coroutine scans the directory of all files, the others
\* record accesses, and any write may meet contention.  The event loop resumes every
\* coroutine that can go on: a step of a call in progress that stays
\* possible is taken (sleeps end, SQLite answers within its busy timeout);
\* which outcome the step has is not constrained.
NextLive ==
    \/ \E t \in Tasks \ {Scanner}, p \in Paths : RaUnknown(t, p)
    \/ \E t \in Tasks \ {Scanner}, p \in Paths : RaKnown(t, p)
    \/ \E t \in Tasks \ {Scanner}, p \in Paths : RaKnownLocked(t, p)
    \/ \E t \in Tasks : BumpStep(t)
    \/ ScanBegin(Scanner, Paths)
    \/ ScanFile(Scanner)
    \/ ScanEnd(Scanner)
    \/ \E t \in Tasks : StoreStep(t)

FairLive ==
    \A t \in Tasks : WF_vars(BumpStep(t)) /\ WF_vars(StoreStep(t))

SpecLive == InitStore /\ [][NextLive]_vars /\ FairLive

\* ------------------------------------------------------- _load_embeddings
\* A call of _load_embeddings by itself, as RecommendationAgent.__init__
\* makes it: the index is built anew from the tables.  The marker counts in
\* `attempts` the runs made in a row (1, or 2 for any later one).
\* (LoadReused: the AnnoyIndex kept from the last load; add_item on a built
\* index raises, and the outer `except` clears the map.)
LoadMarker ==
    [NoStoreReturn EXCEPT !.op = "_load_embeddings",
                          !.attempts = IF sret.op = "_load_embeddings"
                                       THEN 2 ELSE 1]

LoadReused ==
    /\ index' = IF index = <<>> THEN LoadEmbeddings(files, content) ELSE <<>>
    /\ sret' = LoadMarker
    /\ StoreFrame
    /\ UNCHANGED <<content, task, retry, stored>>

Load ==
    /\ index' = LoadEmbeddings(files, content)
    /\ sret' = LoadMarker
    /\ StoreFrame
    /\ UNCHANGED <<content, task, retry, stored>>

\* The embedding tables an agent may find when it is constructed: rows
\* written by earlier runs, whose embeddings.dim may have been another.
LoadText == <<"c">>

StoredTables ==
    UNION {[S -> {ContentRow(LoadText, Encode(LoadText, n)) :
                     n \in EncodeDims}] :
           S \in SUBSET Ids}

InitLoad ==
    /\ now = 0
    /\ tz = 0
    /\ files \in FileTables
    /\ content \in StoredTables
    /\ activity = <<>>
    /\ cooc = <<>>
    /\ index = <<>>
    /\ actLock = FALSE
    /\ scanLock = FALSE
    /\ task = [t \in Tasks |-> IdleTask]
    /\ returned = NoReturn
    /\ targeted = [i \in Ids |-> 0]
    /\ retry = [t \in Tasks |-> NoRetry]
    /\ sret = NoStoreReturn
    /\ stored = <<>>
    /\ weights = DefaultWeights
    /\ planner = Constructed(DefaultPlanningSteps, TRUE)
    /\ recs = NoRecs

\* Under SpecLoad the index is loaded, and rows are written by
\* store_embedding calls that meet no contention.
NextLoad ==
    \/ Load
    \/ \E i \in Ids : StoreCall(Caller, i, <<" ", "c">>)
    \/ StoreWrite(Caller, Dim)

SpecLoad == InitLoad /\ [][NextLoad]_vars

\* ------------------------------------------------------------ PlannerAgent
\* A query is modelled by the keywords of parse_intent that its lower-cased
\* text contains and by the path _extract_path finds in it ("" for None).
Queries ==
    {[keywords |-> {"scan"}, path |-> ""],
     [keywords |-> {"scan"}, path |-> "a"],
     [keywords |-> {"similar"}, path |-> "a"],
     [keywords |-> {"find files", "find"}, path |-> ""],
     [keywords |-> {"recent"}, path |-> ""],
     [keywords |-> {"workflow"}, path |-> ""],
     [keywords |-> {"find"}, path |-> ""],
     [keywords |-> {}, path |-> ""]}

Requests ==
    [query : Queries, require_confirmation : BOOLEAN,
     max_planning_steps : 0..MaxSteps]

\* AgentBrain.parse_intent: the first group with a keyword in the query.
ParseIntent(query) ==
    IF query.keywords \cap {"scan", "index", "search directory"} # {}
    THEN "scan_directory"
    ELSE IF query.keywords \cap {"related", "similar", "find files"} # {}
    THEN "find_related_files"
    ELSE IF query.keywords
              \cap {"recent", "last week", "yesterday", "new files"} # {}
    THEN "get_recent_files"
    ELSE IF query.keywords
              \cap {"workflow", "together", "co-occurrence", "pattern"} # {}
    THEN "analyze_workflow"
    ELSE IF query.keywords \cap {"filter", "find", "search"} # {}
    THEN "filter_files"
    ELSE "unknown"

\* AgentBrain._extract_path, _extract_file_path.
ExtractPath(query) == query.path

\* AgentBrain.plan_tools: one tool call per intent.
PlanTools(intent, query) ==
    IF intent = "scan_directory"
    THEN <<[tool |-> "scan",
            parameters |-> [path |-> IF ExtractPath(query) # ""
                                     THEN ExtractPath(query) ELSE "."]]>>
    ELSE IF intent = "find_related_files" /\ ExtractPath(query) # ""
    THEN <<[tool |-> "recommend",
            parameters |-> [file_path |-> ExtractPath(query), limit |-> 5]]>>
    ELSE IF intent = "analyze_workflow"
    THEN <<[tool |-> "analyze_activity", parameters |-> <<>>]>>
    ELSE <<[tool |-> "get_files", parameters |-> <<>>]>>

\* results.get(k) is truthy: every value of results is a tool's result, a
\* dict that is not empty.
Truthy(results, k) == k \in DOMAIN results

\* len(results.get(k, [])).
LenOf(results, k) ==
    IF k \in DOMAIN results THEN Cardinality(DOMAIN results[k]) ELSE 0

\* AgentBrain.evaluate_results, applied to the dict of the tools' results;
\* its keys are names of tools.
EvaluateResults(results, intent) ==
    IF DOMAIN results = {} THEN 0
    ELSE IF Truthy(results, "error") THEN 30
    ELSE IF ~Truthy(results, "success") THEN 40
    ELSE IF intent = "scan_directory" /\ Truthy(results, "message") THEN 95
    ELSE IF intent = "find_related_files"
    THEN IF LenOf(results, "recommendations") > 0 THEN 90 ELSE 60
    ELSE IF intent = "get_recent_files"
    THEN IF LenOf(results, "files") > 0 THEN 85 ELSE 50
    ELSE IF intent = "analyze_workflow"
    THEN IF Truthy(results, "most_accessed_files")
            \/ Truthy(results, "top_cooccurrence_pairs")
         THEN 90 ELSE 60
    ELSE 70

\* The directory "." holds the files of Paths; no other path is a directory.
IsDir(path) == path = "."

\* The results of the tools of ToolRegistry.
Failure == [success |-> FALSE, error |-> "error"]

ScanResult(path) == [success |-> TRUE, message |-> "scanned", path |-> path]

\* tool_recommend: recommend_similar(file_path, limit).
RecommendResult(file_path, limit) ==
    LET recommendations ==
            RecommendSimilar(files, content, activity, cooc, weights,
                             file_path, limit)
    IN  [success |-> TRUE, file_path |-> file_path,
         recommendations |-> recommendations,
         count |-> Len(recommendations)]

\* tool_get_files: SELECT path FROM files ... LIMIT 100 (the order of the
\* rows is left out: the paths are a set).
GetFilesResult ==
    [success |-> TRUE, files |-> DOMAIN files,
     count |-> Cardinality(DOMAIN files), message |-> "found"]

\* tool_analyze_activity: the activity rows and the edges joined with files.
AnalyzeResult ==
    [success |-> TRUE,
     most_accessed_files |->
         {[path |-> p, access_count |-> activity[files[p].id].access_count,
           last_accessed |-> activity[files[p].id].last_accessed] :
          p \in {q \in DOMAIN files : files[q].id \in DOMAIN activity}},
     top_cooccurrence_pairs |->
         {[file1 |-> PathOf(files, k[1]), file2 |-> PathOf(files, k[2]),
           co_count |-> cooc[k]] :
          k \in {e \in DOMAIN cooc :
                    {e[1], e[2]} \subseteq {files[p].id : p \in DOMAIN files}}},
     analysis |-> "complete"]

\* The steps of PlannerAgent.execute leave the agents and tables alone.
PlannerFrame ==
    /\ returned' = NoReturn
    /\ sret' = NoStoreReturn
    /\ recs' = NoRecs
    /\ UNCHANGED <<now, tz, files, content, activity, cooc, index, actLock,
                   targeted, retry, stored, weights>>

\* execute(request): parse_intent and plan_tools.
Execute(request) ==
    /\ planner.pc \in {"idle", "done"}
    /\ LET intent == ParseIntent(request.query)
       IN  planner' = [planner EXCEPT
               !.pc = "act", !.request = request, !.intent = intent,
               !.tool_calls = PlanTools(intent, request.query), !.idx = 0,
               !.results = <<>>, !.execution_success = TRUE,
               !.executed = <<>>, !.response = NoResponse]
    /\ PlannerFrame
    /\ UNCHANGED <<scanLock, task>>

\* The loop `for idx, tool_call in enumerate(tool_calls)` is at a tool call
\* below self.max_steps.
AtToolCall ==
    /\ planner.pc = "act"
    /\ planner.idx < Len(planner.tool_calls)
    /\ planner.idx < planner.max_steps

ToolCallNow == planner.tool_calls[planner.idx + 1]

\* results[tool] = result, and the loop moves on.
Observe(tool, result) ==
    planner' = [planner EXCEPT
        !.pc = "act", !.idx = @ + 1,
        !.results = (tool :> result) @@ @,
        !.execution_success = @ /\ result.success,
        !.executed = Append(@, tool)]

\* A tool call that reads the tables, or recommends, in one step.
ToolReads ==
    /\ AtToolCall
    /\ LET call == ToolCallNow
       IN  \/ /\ call.tool = "get_files"
              /\ Observe(call.tool, GetFilesResult)
           \/ /\ call.tool = "analyze_activity"
              /\ Observe(call.tool, AnalyzeResult)
           \/ /\ call.tool = "recommend"
              /\ Observe(call.tool,
                         RecommendResult(call.parameters.file_path,
                                         call.parameters.limit))
    /\ PlannerFrame
    /\ UNCHANGED <<scanLock, task>>

\* tool_get_files or tool_analyze_activity meets a storage error.
ToolStorageError ==
    /\ AtToolCall
    /\ ToolCallNow.tool \in {"get_files", "analyze_activity"}
    /\ Observe(ToolCallNow.tool, Failure)
    /\ PlannerFrame
    /\ UNCHANGED <<scanLock, task>>

\* tool_scan of a path that is no directory: scan_directory raises.
ToolScanFails ==
    /\ AtToolCall
    /\ ToolCallNow.tool = "scan"
    /\ ~IsDir(ToolCallNow.parameters.path)
    /\ Observe("scan", Failure)
    /\ PlannerFrame
    /\ UNCHANGED <<scanLock, task>>

\* tool_scan of a directory: scan_directory takes the lock, as ScanBegin.
ToolScanBegin(t) ==
    /\ AtToolCall
    /\ ToolCallNow.tool = "scan"
    /\ IsDir(ToolCallNow.parameters.path)
    /\ task[t].pc = "idle"
    /\ LockFree(scanLock)
    /\ NewRowid(files) + Cardinality(Paths) - 1 <= MaxId
    /\ scanLock' = TRUE
    /\ task' = [task EXCEPT ![t] =
           [pc |-> "scan", path |-> "", fid |-> 0, text |-> <<>>,
            todo |-> Paths]]
    /\ planner' = [planner EXCEPT !.pc = "scan"]
    /\ PlannerFrame

\* scan_directory returned: tool_scan reports success.
ToolScanReturn(t) ==
    /\ planner.pc = "scan"
    /\ task[t].pc = "idle"
    /\ Observe("scan", ScanResult(ToolCallNow.parameters.path))
    /\ PlannerFrame
    /\ UNCHANGED <<scanLock, task>>

\* After the loop: evaluate_results(results, intent), the confirmation flag
\* and the response.
Respond ==
    /\ planner.pc = "act"
    /\ ~AtToolCall
    /\ LET confidence == EvaluateResults(planner.results, planner.intent)
       IN  planner' = [planner EXCEPT
               !.pc = "done",
               !.response =
                   [intent |-> planner.intent, confidence |-> confidence,
                    user_confirmation_needed |->
                        /\ planner.request.require_confirmation
                        /\ planner.hitl_enabled
                        /\ confidence < 85,
                    error |-> ~planner.execution_success]]
    /\ PlannerFrame
    /\ UNCHANGED <<scanLock, task>>

\* Under SpecPlanner one coroutine executes requests, one after the other,
\* with any configuration of the planner.
InitPlanner ==
    /\ now = 0
    /\ tz = 0
    /\ files = <<>>
    /\ content = <<>>
    /\ activity = <<>>
    /\ cooc = <<>>
    /\ index = <<>>
    /\ actLock = FALSE
    /\ scanLock = FALSE
    /\ task = [t \in Tasks |-> IdleTask]
    /\ returned = NoReturn
    /\ targeted = [i \in Ids |-> 0]
    /\ retry = [t \in Tasks |-> NoRetry]
    /\ sret = NoStoreReturn
    /\ stored = <<>>
    /\ weights = DefaultWeights
    /\ recs = NoRecs
    /\ \E max_steps \in 0..MaxSteps, hitl_enabled \in BOOLEAN :
          planner = Constructed(max_steps, hitl_enabled)

NextPlanner ==
    \/ \E request \in Requests : Execute(request)
    \/ ToolReads
    \/ ToolStorageError
    \/ ToolScanFails
    \/ ToolScanBegin(Caller)
    \/ ScanFile(Caller)
    \/ ScanEmbed(Caller)
    \/ ScanEnd(Caller)
    \/ ToolScanReturn(Caller)
    \/ Respond

SpecPlanner == InitPlanner /\ [][NextPlanner]_vars

\* -------------------------------------------------------------- observers
\* Ids of the rows of table files.
FileIds == {files[p].id : p \in DOMAIN files}

\* access_count of the activity row of a file id (0: no row).
AccessCount(i) == IF i \in DOMAIN activity THEN activity[i].access_count ELSE 0

\* get_recent_activity: file_activity JOIN files, the access_count shown for
\* a path (0: the path is not in the result).
RecentCount(fs, act, p) ==
    IF p \in DOMAIN fs /\ fs[p].id \in DOMAIN act
    THEN act[fs[p].id].access_count ELSE 0

\* Coroutines between the activity upsert of record_access and its return.
InCritical == {t \in Tasks : task[t].pc = "bump"}

\* The edge (lo, hi) of table co raised by one, at 1 when absent.
Bumped(co, lo, hi) ==
    [k \in DOMAIN co \cup {<<lo, hi>>} |->
        IF k = <<lo, hi>>
        THEN (IF k \in DOMAIN co THEN co[k] + 1 ELSE 1)
        ELSE co[k]]

Lo(a, b) == IF a < b THEN a ELSE b

Hi(a, b) == IF a < b THEN b ELSE a

\* The other files whose last access lies, as an instant, within the window
\* before the present minute.
InWindowFiles(i) ==
    {o \in (FileIds \cap DOMAIN activity) \ {i} :
        activity[o].last_accessed - tz >= now - WindowMinutes}

\* ----------------------------------------------------------------- claims

\* C1: once every record_access call has returned, the access_count of each
\* file equals the number of calls that resolved to it: no increment is lost
\* or counted twice, whatever the interleaving of the calls.
C1_NoLostUpdate ==
    (InCritical = {}) => \A i \in Ids : AccessCount(i) = targeted[i]

\* Three calls over two files have all returned: two on one, one on the other.
C1_Witness ==
    /\ InCritical = {}
    /\ \E i, j \in Ids : i # j /\ targeted[i] = 2 /\ targeted[j] = 1
                         /\ AccessCount(i) = 2

\* C2: at most one record_access call is between its activity upsert and its
\* last edge bump, and while one is there no other call upserts an activity
\* row, scans the neighbours or enters the section.
C2_MutualExclusion ==
    /\ [](Cardinality(InCritical) <= 1)
    /\ [][InCritical # {} =>
            /\ activity' = activity
            /\ targeted' = targeted
            /\ InCritical' \subseteq InCritical]_vars

\* A call holds the lock inside the section while another coroutine is idle.
C2_Witness ==
    \E t, u \in Tasks : /\ t # u
                        /\ task[t].pc = "bump"
                        /\ task[u].pc = "idle"
                        /\ actLock

\* C3: the activity upsert of record_access(f) leaves f's row with
\* access_count 1 when there was no row and the old count plus one otherwise,
\* and with last_accessed the time of the call; the row stays so until the
\* call returns.
C3_UpsertActivity ==
    /\ [][\A i \in Ids : targeted'[i] # targeted[i] =>
            /\ i \in DOMAIN activity'
            /\ activity'[i].access_count = AccessCount(i) + 1
            /\ activity'[i].last_accessed = LocalNow]_vars
    /\ [][\A t \in InCritical :
            activity'[task[t].fid] = activity[task[t].fid]]_vars

\* A second access of a file has just returned True, later than the first.
C3_Witness ==
    /\ returned.op = "record_access"
    /\ returned.ret
    /\ now > 0
    /\ AccessCount(SelectFileId(files, returned.path)) = 2
    /\ activity[SelectFileId(files, returned.path)].last_accessed = LocalNow

\* C4: record_access(f) bumps by exactly one the edge between f and every
\* other file whose last access lies within the 5 minutes before the call:
\* every such file is among the neighbours the call goes on to bump, each bump
\* raises that edge by one, and the call returns when none is left.
C4_WindowBump ==
    /\ [][\A i \in Ids : targeted'[i] # targeted[i] =>
            \A o \in InWindowFiles(i) :
                \E t \in Tasks : /\ task'[t].pc = "bump"
                                 /\ task'[t].fid = i
                                 /\ o \in task'[t].todo]_vars
    /\ [][\A t \in InCritical : task'[t] # task[t] =>
            \E o \in task[t].todo :
                /\ cooc' = Bumped(cooc, Lo(task[t].fid, o), Hi(task[t].fid, o))
                /\ \/ task'[t].pc = "bump" /\ task'[t].todo = task[t].todo \ {o}
                   \/ task'[t].pc = "idle" /\ task[t].todo = {o}]_vars

\* C5: every stored co-occurrence edge has file_id_1 < file_id_2, so an
\* unordered pair has one row at most and no row is a self-pair.
C5_CanonicalEdges ==
    \A k \in DOMAIN cooc : k[1] < k[2]

\* An edge that was bumped from both of its ends.
C5_Witness ==
    \E k \in DOMAIN cooc : cooc[k] >= 2 /\ k[1] < k[2]

\* C6: for file ids a # b, bump_cooccurrence(a, b) and bump_cooccurrence(b, a)
\* have the same effect, raising by one (to 1 when absent) the one edge keyed
\* (min(a,b), max(a,b)) and nothing else; for a = b nothing changes; and every
\* change of the table is such a bump by the call inside the section.
C6_BumpSymmetric ==
    /\ [](\A a, b \in Ids :
            /\ RecordCooccurrence(cooc, a, a) = cooc
            /\ a # b =>
                /\ RecordCooccurrence(cooc, a, b) = RecordCooccurrence(cooc, b, a)
                /\ RecordCooccurrence(cooc, a, b) = Bumped(cooc, Lo(a, b), Hi(a, b)))
    /\ [][cooc' # cooc =>
            \E t \in InCritical : \E o \in task[t].todo :
                cooc' = Bumped(cooc, Lo(task[t].fid, o), Hi(task[t].fid, o))]_vars

\* A call on the higher id is about to bump an edge that is already stored.
C6_Witness ==
    \E t \in Tasks : \E o \in task[t].todo :
        /\ task[t].pc = "bump"
        /\ o < task[t].fid
        /\ <<o, task[t].fid>> \in DOMAIN cooc

\* C7: record_access on a path with no File record returns false, and the
\* step leaves every activity row and every edge as it was.
C7_UnknownPath ==
    /\ [](returned.op = "record_access" =>
            (returned.ret <=> returned.path \in DOMAIN files))
    /\ [][(returned'.op = "record_access" /\ ~returned'.ret) =>
            (activity' = activity /\ cooc' = cooc)]_vars

\* A call on an unscanned path has returned false beside stored activity.
C7_Witness ==
    /\ returned.op = "record_access"
    /\ ~returned.ret
    /\ returned.path \notin DOMAIN files
    /\ DOMAIN activity # {}

\* C8: re-scanning a path that has a File record keeps the record's id, so
\* what is attached to the path stays attached.
C8_SameIdentity ==
    [][\A p \in DOMAIN files : files'[p].id = files[p].id]_vars

\* C9: the access_count shown for a path by the activity read path never
\* decreases, whatever record_access, scan_directory and store_embedding do.
C9_CountMonotone ==
    [][\A p \in Paths :
        RecentCount(files', activity', p) >= RecentCount(files, activity, p)]_vars

\* C10: every file_content row and every file_activity row references a row
\* of files.
C10_NoOrphans ==
    /\ DOMAIN content \subseteq FileIds
    /\ DOMAIN activity \subseteq FileIds

\* A text that is empty or holds whitespace only.
IsBlank(text) == \A i \in 1..Len(text) : text[i] \in Whitespace

\* The entries of the index and the rows they should stand for: the files
\* with a stored vector of D components.
IndexEntries(ix) == {ix[s] : s \in DOMAIN ix}

EmbeddedFiles(fs, ct) ==
    {p \in DOMAIN fs :
        fs[p].id \in DOMAIN ct /\ Len(ct[fs[p].id].vec) = Dim}

\* C11: every vector in the embedding table has exactly D components; a
\* store_embedding call whose embedding function yields a vector of another
\* length returns False and leaves every row of the table as it was.
C11_RejectsWrongDimension ==
    /\ [](\A i \in DOMAIN content : Len(content[i].vec) = Dim)
    /\ [][(sret'.op = "store_embedding" /\ sret'.len \in EncodeDims \ {Dim})
            => (~sret'.ret /\ content' = content)]_vars

C11_Witness ==
    /\ sret.op = "store_embedding"
    /\ sret.len \in EncodeDims \ {Dim}
    /\ ~sret.ret
    /\ sret.fid \in DOMAIN content

\* C12: store_embedding with an empty or whitespace-only text returns False,
\* computes no embedding, and leaves the embedding table and the index as
\* they were.
C12_RejectsBlankText ==
    [][(sret'.op = "store_embedding" /\ IsBlank(sret'.text))
         => (~sret'.ret /\ sret'.len = 0 /\ sret'.attempts = 0
             /\ content' = content /\ index' = index)]_vars

C12_Witness ==
    /\ sret.op = "store_embedding"
    /\ IsBlank(sret.text)
    /\ sret.text # <<>>
    /\ ~sret.ret
    /\ sret.fid \in DOMAIN content
    /\ index # <<>>

C15_RetryAndBackoff ==
    [][(sret'.op = "store_embedding" /\ sret'.len = Dim)
         => /\ sret'.attempts \in 1..MaxRetries
            /\ sret'.slept =
                  [k \in 1..(sret'.attempts - 1) |-> BackoffTenths * k]
            /\ ~sret'.ret
                  => (sret'.attempts = MaxRetries /\ content' = content)
            /\ sret'.ret
                  => /\ sret'.fid \in DOMAIN content'
                     /\ content'[sret'.fid] =
                           ContentRow(sret'.text, Encode(sret'.text, Dim))]_vars

C15_Witness ==
    /\ sret.op = "store_embedding"
    /\ ~sret.ret
    /\ sret.attempts = MaxRetries
    /\ Len(sret.slept) = MaxRetries - 1
    /\ sret.fid \notin DOMAIN content

\* C16: a contention that clears before the fifth attempt makes no mutating
\* operation fail or lose its write: record_access of a known path returns
\* True, every step of its loop writes its edge, every file of a scan gets
\* its row, and store_embedding returns True.
C16_ContentionTolerated ==
    [][/\ (returned'.op = "record_access" /\ returned'.path \in DOMAIN files)
             => returned'.ret
       /\ \A t \in Tasks :
             (task[t].pc = "bump" /\ task'[t] # task[t]) => cooc' # cooc
       /\ \A t \in Tasks :
             (task[t].pc = "scan" /\ task'[t].todo # task[t].todo)
                => files' # files
       /\ (sret'.op = "store_embedding" /\ sret'.len = Dim)
             => sret'.ret]_vars

\* C17: a step of record_access's loop that does not apply its edge bump
\* ends the call with False; so a call that returns True has applied the
\* bump of every in-window neighbour.
C17_NoSilentLoss ==
    [][\A t \in Tasks :
          (task[t].pc = "bump" /\ task'[t] # task[t] /\ cooc' = cooc)
             => (returned'.op = "record_access" /\ ~returned'.ret
                 /\ task'[t].pc = "idle")]_vars

\* C14: a recommend_similar call with a query text and a limit no smaller
\* than the number of candidates, made while no store_embedding call is in
\* progress, returns, for every other file whose store_embedding has
\* returned True, an item scored against the vector of that file's last
\* successful store_embedding.
C14_ReadAfterWrite ==
    [][(recs'.op = "recommend_similar" /\ recs'.text # <<>>
        /\ recs'.limit >= Cardinality(DOMAIN content')
        /\ \A t \in Tasks : task[t].pc \notin StorePcs)
         => \A p \in DOMAIN stored' \ {recs'.query} :
               \E k \in 1..Len(recs'.items) :
                  /\ recs'.items[k].path = p
                  /\ recs'.items[k].vec = stored'[p]]_vars

\* The sum of a triple.
Sum3(w) == w[1] + w[2] + w[3]

\* The candidates of the call that returned.
Candidates == CandidateIds(files, content, recs.query)

\* C18: with weights that sum to zero a recommend_similar call with a query
\* text and a positive limit returns the candidates, up to limit, each with
\* final_score 0.
C18_ZeroWeightsSucceed ==
    (recs.op = "recommend_similar" /\ Sum3(weights) = 0
     /\ recs.text # <<>> /\ recs.limit > 0)
      => /\ Len(recs.items) =
               IF recs.limit < Len(Candidates) THEN recs.limit
               ELSE Len(Candidates)
         /\ \A k \in 1..Len(recs.items) : recs.items[k].final_score = 0

\* The weights an item carries, as a triple of hundredths.
Carried(item) ==
    <<item.weights.semantic, item.weights.recency, item.weights.cooccurrence>>

\* Within one unit of the last place.
Near(x, y) == x - y \in {0 - 1, 0, 1}

\* C19 (as stated): with a positive sum of the weights, the normalized
\* weights used for scoring and those carried in each item sum to 1.0, and
\* are the same for the weights scaled by any positive factor.
C19_CarriedSumToOne ==
    (recs.op = "recommend_similar" /\ Sum3(weights) > 0)
      => \A k \in 1..Len(recs.items) :
            /\ Near(Sum3(recs.items[k].used), Fixed)
            /\ Sum3(Carried(recs.items[k])) = Centi
            /\ \A c \in 1..MaxWeight :
                  recs.items[k].used = Normalized([i \in 1..3 |-> c * weights[i]])

\* C19 (amended): with a positive sum of the weights, the normalized weights
\* used for scoring sum to 1.0 within the tolerance of the division and are
\* the same for the weights scaled by any positive factor; each item carries
\* them rounded to two decimals, and the carried ones sum to 1.0 within 0.01.
C19_NormalizedWeights ==
    (recs.op = "recommend_similar" /\ Sum3(weights) > 0)
      => \A k \in 1..Len(recs.items) :
            /\ Near(Sum3(recs.items[k].used), Fixed)
            /\ \A i \in 1..3 :
                  Carried(recs.items[k])[i] =
                      RoundHalfEven(recs.items[k].used[i] * Centi, Fixed)
            /\ Near(Sum3(Carried(recs.items[k])), Centi)
            /\ \A c \in 1..MaxWeight :
                  recs.items[k].used = Normalized([i \in 1..3 |-> c * weights[i]])

C19_Witness ==
    /\ recs.op = "recommend_similar"
    /\ Sum3(weights) > 0
    /\ Len(recs.items) > 1
    /\ Sum3(Carried(recs.items[1])) # Centi
    /\ weights[2] > 0

\* C20: a recommend_similar call with limit <= 0 returns the empty list.
C20_NonPositiveLimitEmpty ==
    (recs.op = "recommend_similar" /\ recs.limit <= 0) => recs.items = <<>>

\* The smaller of two numbers.
Min(a, b) == IF a < b THEN a ELSE b

\* The item recommend_similar builds for candidate id i of the call that
\* returned.
ItemOf(i) ==
    Item(files, content, activity, cooc, Normalized(weights), recs.query,
         Encode(recs.text, Dim), i)

\* The paths of the items returned.
ReturnedPaths == {recs.items[k].path : k \in 1..Len(recs.items)}

\* C21: a recommend_similar call with a query text and limit > 0 returns
\* min(limit, number of candidates) items, in non-increasing order of
\* final_score, items of equal final_score in the order their rows were
\* enumerated, and no candidate left out has a higher final_score than one
\* returned.
C21_SortedTopK ==
    (recs.op = "recommend_similar" /\ recs.text # <<>> /\ recs.limit > 0)
      => /\ Len(recs.items) = Min(recs.limit, Len(Candidates))
         /\ \A j, k \in 1..Len(recs.items) :
               j < k =>
                  /\ recs.items[j].final_score >= recs.items[k].final_score
                  /\ recs.items[j].final_score = recs.items[k].final_score
                        => files[recs.items[j].path].id
                              < files[recs.items[k].path].id
         /\ \A k \in 1..Len(Candidates) :
               PathOf(files, Candidates[k]) \notin ReturnedPaths
                  => \A j \in 1..Len(recs.items) :
                        ItemOf(Candidates[k]).final_score
                           <= recs.items[j].final_score

\* The files other than the query that have a stored embedding.
EmbeddedOthers ==
    {p \in DOMAIN files \ {recs.query} :
        files[p].id \in DOMAIN content /\ content[files[p].id].vec # <<>>}

\* C22: a recommend_similar call with a query text and a limit no smaller
\* than the number of stored embeddings returns one item for every file,
\* other than the query, that has a stored embedding, and no other item: so
\* never the query's own path, and nothing when no other file is embedded.
C22_CandidateSet ==
    (recs.op = "recommend_similar" /\ recs.text # <<>>
     /\ recs.limit >= Cardinality(DOMAIN content))
      => /\ ReturnedPaths = EmbeddedOthers
         /\ Len(recs.items) = Cardinality(EmbeddedOthers)
         /\ recs.query \notin ReturnedPaths

\* The co-occurrence factor of a pair of paths in the present tables.
CoFactor(q, p) == GetCooccurrenceScore(files, cooc, q, p)

\* The stored edges of the unordered pair of the ids of two files.
EdgesOf(q, p) ==
    {k \in DOMAIN cooc : {k[1], k[2]} = {files[q].id, files[p].id}}

CarriedFactors(item) ==
    <<item.factors.semantic_similarity, item.factors.recency,
      item.factors.cooccurrence>>

\* The sum of the products of two triples.
Dot3(u, v) == u[1] * v[1] + u[2] * v[2] + u[3] * v[3]

\* The distance of two numbers.
Dist(x, y) == IF x < y THEN y - x ELSE x - y

\* With weights (w, 0, 0) every item's final_score is its similarity factor
\* and the first item is a candidate of the highest similarity.
SemanticOnly ==
    (recs.op = "recommend_similar" /\ weights[2] = 0 /\ weights[3] = 0)
      => /\ \A k \in 1..Len(recs.items) :
               recs.items[k].final_score
                  = recs.items[k].factors.semantic_similarity
         /\ recs.items # <<>>
               => \A k \in 1..Len(Candidates) :
                     ItemOf(Candidates[k]).factors.semantic_similarity
                        <= recs.items[1].factors.semantic_similarity

\* C24 (as stated): the final_score of every returned item is the weighted
\* sum of the factors the item carries under the weights the item carries,
\* to three decimals; with weights (w, 0, 0) it is the similarity factor and
\* the most similar candidate comes first.
C24_FromCarriedValues ==
    /\ recs.op = "recommend_similar"
          => \A k \in 1..Len(recs.items) :
                recs.items[k].final_score =
                    RoundHalfEven(Dot3(Carried(recs.items[k]),
                                       CarriedFactors(recs.items[k])), Centi)
    /\ SemanticOnly

\* C24 (amended): the final_score of every returned item is, to three
\* decimals, the weighted sum of the factors as computed under the
\* normalized weights as used; the sum of the carried factors (three
\* decimals) under the carried weights (two decimals) lies within 0.02 of
\* it; with weights (w, 0, 0) it is the similarity factor and the most
\* similar candidate comes first.
C24_FinalScore ==
    /\ recs.op = "recommend_similar"
          => \A k \in 1..Len(recs.items) :
                /\ 2 * Dist(recs.items[k].final_score * ((Fixed * Fixed) \div Milli),
                            Dot3(recs.items[k].used, recs.items[k].raw))
                      <= (Fixed * Fixed) \div Milli + Fixed
                /\ Dist(recs.items[k].final_score * Centi,
                        Dot3(Carried(recs.items[k]),
                             CarriedFactors(recs.items[k])))
                      <= 2 * Milli
    /\ SemanticOnly

C24_Witness ==
    /\ recs.op = "recommend_similar"
    /\ \E k \in 1..Len(recs.items) :
          /\ recs.items[k].final_score * Centi
                # Dot3(Carried(recs.items[k]), CarriedFactors(recs.items[k]))
          /\ recs.items[k].factors.cooccurrence > 0
          /\ weights[3] > 0

\* The (file_id, vector) pairs an index holds.
Pairs(ix) == {<<ix[s].id, ix[s].vec>> : s \in DOMAIN ix}

\* The rows of files JOIN file_content with a vector of D components.
ValidRows(fs, ct) == {i \in JoinedIds(fs, ct) : Len(ct[i].vec) = Dim}

\* A step that ends a load of the index: _load_embeddings by itself, or the
\* one inside a store_embedding call that returns True.
Loaded(m) ==
    m.op = "_load_embeddings" \/ (m.op = "store_embedding" /\ m.ret)

C27_DenseSlots ==
    [][Loaded(sret')
         => DOMAIN index' = 0..(Cardinality(DOMAIN index') - 1)]_vars

\* The coroutines inside a store_embedding call awaited by scan_directory.
Embedding_InProgress == {t \in Tasks : task[t].pc = "embed"}

\* C28: at most one store_embedding call awaited by scan_directory is in
\* progress at any time, its retry sleeps included; when one begins, no
\* other is in progress, and the scan that awaits it holds the scan lock
\* until it has returned.
C28_ScanWritesSerialized ==
    /\ [](/\ Cardinality(Embedding_InProgress) <= 1
          /\ Embedding_InProgress # {} => scanLock
          /\ \A t \in Tasks : retry[t] # NoRetry => t \in Embedding_InProgress)
    /\ [][\A t \in Tasks :
             (task[t].pc # "embed" /\ task'[t].pc = "embed")
                => /\ Embedding_InProgress = {}
                   /\ \A u \in Tasks : retry[u] = NoRetry]_vars

C28_Witness ==
    /\ \E t \in Tasks : task[t].pc = "embed" /\ retry[t].attempt >= 2
    /\ content # <<>>
    /\ index # <<>>

\* C29: every record_access call and every store_embedding call in
\* progress returns, and what it returns is True or False; the lock of
\* record_access is held only while a record_access call is in progress.
C29_CallsReturn ==
    /\ \A t \in Tasks : (task[t].pc = "bump") ~> (task[t].pc = "idle")
    /\ \A t \in Tasks : (task[t].pc \in StorePcs) ~> (task[t].pc \notin StorePcs)
    /\ [](actLock => InCritical # {})
    /\ [][\A t \in Tasks :
             /\ (task[t].pc = "bump" /\ task'[t].pc # "bump")
                   => /\ returned'.op = "record_access"
                      /\ returned'.ret \in BOOLEAN
                      /\ task'[t].pc = "idle"
                      /\ ~actLock'
             /\ (task[t].pc \in StorePcs /\ task'[t].pc \notin StorePcs)
                   => /\ sret'.op = "store_embedding"
                      /\ sret'.ret \in BOOLEAN]_vars

C29_Witness ==
    /\ sret.op = "store_embedding"
    /\ ~sret.ret
    /\ sret.attempts = MaxRetries
    /\ ~actLock
    /\ cooc # <<>>

\* The item returned for a path: its factors, rounded to thousandths.
FactorsOf(p) ==
    LET j == CHOOSE k \in 1..Len(recs.items) : recs.items[k].path = p
    IN  recs.items[j].factors

\* C30: a recommend_similar call with a query text and a limit no smaller
\* than the number of candidates returns every candidate, also one without
\* an activity row or without a co-occurrence edge to the query: the first
\* with the recency 0.4 * modification_score + 0.6 * 0.0, the second with
\* the co-occurrence -1.0, and every candidate with the factors of its own
\* rows.
C30_BestEffort ==
    (recs.op = "recommend_similar" /\ recs.text # <<>>
     /\ recs.limit >= Len(Candidates))
      => \A k \in 1..Len(Candidates) :
            LET p == PathOf(files, Candidates[k])
            IN  /\ p \in ReturnedPaths
                /\ files[p].id \notin DOMAIN activity
                      => FactorsOf(p).recency =
                            RoundHalfEven(
                                4 * Clamp(ExpNeg(DaysSinceModified(p), 30))
                                  * Milli, 10 * Fixed)
                /\ (recs.query \notin DOMAIN files \/ EdgesOf(recs.query, p) = {})
                      => FactorsOf(p).cooccurrence = 0 - Milli
                /\ FactorsOf(p).recency =
                      RoundHalfEven(GetRecencyScore(files, activity, p)
                                    * Milli, Fixed)
                /\ FactorsOf(p).cooccurrence =
                      RoundHalfEven(CoFactor(recs.query, p) * Milli, Fixed)

\* The content_preview stored for a path (<<>>: none).
StoredPreview(q) ==
    IF q \in DOMAIN files /\ files[q].id \in DOMAIN content
    THEN content[files[q].id].preview ELSE <<>>

\* C31: a recommend_similar call for a path that yields no text on disk
\* takes the stored content_preview of that path as its query text, every
\* item being scored against the embedding of the preview; with no preview
\* either it returns the empty list.
C31_PreviewFallback ==
    (recs.op = "recommend_similar" /\ ExtractText(recs.query) = <<>>)
      => /\ recs.text = StoredPreview(recs.query)
         /\ \A k \in 1..Len(recs.items) :
               recs.items[k].raw[1] =
                   Similarity(Encode(StoredPreview(recs.query), Dim),
                              recs.items[k].vec)
         /\ StoredPreview(recs.query) = <<>> => recs.items = <<>>

C31_Witness ==
    /\ recs.op = "recommend_similar"
    /\ ExtractText(recs.query) = <<>>
    /\ StoredPreview(recs.query) # <<>>
    /\ recs.items # <<>>

\* C32: a get_recent_activity call with limit >= 0, made at any time, also
\* while a record_access call is in progress, returns min(limit, n) of the n
\* activity rows of existing files as they are at that moment, each once,
\* as (path, last_accessed, access_count), in non-increasing order of
\* last_accessed, and no row left out is more recent than one returned.
C32_RecentActivity ==
    (recs.op = "get_recent_activity" /\ recs.limit >= 0)
      => /\ Len(recs.items)
               = Min(recs.limit, Cardinality(ActivityRows(files, activity)))
         /\ \A k \in 1..Len(recs.items) :
               /\ recs.items[k].path \in DOMAIN files
               /\ files[recs.items[k].path].id \in DOMAIN activity
               /\ recs.items[k].last_accessed
                     = activity[files[recs.items[k].path].id].last_accessed
               /\ recs.items[k].access_count
                     = activity[files[recs.items[k].path].id].access_count
         /\ \A j, k \in 1..Len(recs.items) :
               j < k => /\ recs.items[j].last_accessed
                              >= recs.items[k].last_accessed
                        /\ recs.items[j].path # recs.items[k].path
         /\ \A r \in ActivityRows(files, activity) :
               r.path \notin ReturnedPaths
                  => \A k \in 1..Len(recs.items) :
                        r.last_accessed <= recs.items[k].last_accessed

C32_Witness ==
    /\ recs.op = "get_recent_activity"
    /\ InCritical # {}
    /\ Len(recs.items) > 1
    /\ recs.items[1].last_accessed > recs.items[2].last_accessed

\* C33: whenever no scan_directory and no store_embedding call is in
\* progress, the file ids held in the index are the ids of the files that
\* have a stored vector of D components.
C33_IndexFollowsEmbeddings ==
    (\A t \in Tasks : task[t].pc = "idle")
      => {e.id : e \in IndexEntries(index)}
            = {files[p].id : p \in EmbeddedFiles(files, content)}

\* The edges of a table that do not have file id i as an endpoint.
EdgesWithout(co, i) == {k \in DOMAIN co : k[1] # i /\ k[2] # i}

\* C34: the steps of record_access(f) change no activity row other than
\* f's, no edge without f as an endpoint, no files row and no embedding row;
\* and the neighbours the call goes on to bump are files whose last access
\* lies within the 5 minutes before the call.
C34_RecordAccessFrame ==
    /\ [][\A i \in Ids : targeted'[i] # targeted[i] =>
            /\ \A j \in DOMAIN activity \ {i} :
                  j \in DOMAIN activity' /\ activity'[j] = activity[j]
            /\ DOMAIN activity' \subseteq DOMAIN activity \cup {i}
            /\ cooc' = cooc /\ files' = files /\ content' = content
            /\ \A t \in Tasks :
                  (task'[t].pc = "bump" /\ task[t].pc # "bump")
                     => \A o \in task'[t].todo :
                           /\ o \in DOMAIN activity \ {i}
                           /\ activity[o].last_accessed - tz
                                 >= now - WindowMinutes]_vars
    /\ [][\A t \in InCritical : task'[t] # task[t] =>
            /\ activity' = activity /\ files' = files /\ content' = content
            /\ EdgesWithout(cooc', task[t].fid) = EdgesWithout(cooc, task[t].fid)
            /\ \A k \in EdgesWithout(cooc, task[t].fid) : cooc'[k] = cooc[k]]_vars

\* C35: a record_access call that returns False leaves every activity row
\* and every co-occurrence edge as they were when it was called.  (A call
\* that returns False does so in the step in which it began.)
C35_NoPartialWrite ==
    [][(returned'.op = "record_access" /\ ~returned'.ret)
         => (activity' = activity /\ cooc' = cooc)]_vars

C37_PlanBound ==
    planner.pc = "done" =>
        /\ Len(planner.executed) <= planner.request.max_planning_steps
        /\ Len(planner.executed) <= Len(planner.tool_calls)
        /\ \A n \in 1..Len(planner.executed) :
               planner.executed[n] = planner.tool_calls[n].tool

\* Some tool was executed, and every executed tool reported success.
AllSucceeded ==
    /\ DOMAIN planner.results # {}
    /\ \A k \in DOMAIN planner.results : planner.results[k].success

\* C38: when every executed tool reported success the confidence of the
\* response is 0.95 for a scan, 0.9 for a recommend with a result and 0.85
\* for a list of files that is not empty; user_confirmation_needed holds
\* exactly when require_confirmation and HITL are on and the confidence is
\* below 0.85; a confidence of 0.3 or 0.4 comes with a failed tool.
C38_Confidence ==
    planner.pc = "done" =>
        LET r == planner.response
            res == planner.results
        IN  /\ AllSucceeded =>
                /\ "scan" \in DOMAIN res => r.confidence = 95
                /\ ("recommend" \in DOMAIN res
                      /\ Len(res["recommend"].recommendations) > 0)
                     => r.confidence = 90
                /\ (r.intent = "get_recent_files"
                      /\ res["get_files"].files # {})
                     => r.confidence = 85
            /\ r.user_confirmation_needed
                 <=> (/\ planner.request.require_confirmation
                      /\ planner.hitl_enabled
                      /\ r.confidence < 85)
            /\ r.confidence \in {30, 40}
                 => \E k \in DOMAIN res : ~res[k].success

TypeOK ==
    /\ now \in 0..(MaxTicks * TickMinutes)
    /\ tz \in TzOffsets
    /\ actLock \in BOOLEAN
    /\ scanLock \in BOOLEAN
    /\ DOMAIN files \subseteq Paths
    /\ DOMAIN activity \subseteq Ids
    /\ DOMAIN content \subseteq Ids
    /\ \A t \in Tasks : retry[t].attempt \in 0..(MaxRetries - 1)
====
